---------------------------- MODULE Spec2Model ----------------------------
(***************************************************************************)
(* A model of rastar (src/src/main.rs): an A* search over a graph of 2D    *)
(* points read from a comma separated token stream.                        *)
(*                                                                         *)
(* Numbers.  The program keeps travelled costs as f64 and forms the heap   *)
(* key with `as usize`.  Here a real value v is the integer nearest to     *)
(* v * Scale (fixed point): distance rounds the square root to the nearest *)
(* representable value as f64's sqrt does, additions are exact, and the    *)
(* cast `as usize` is the integer division by Scale.                       *)
(*                                                                         *)
(* Node indices are 0-based as in the program; TLA+ sequences are 1-based, *)
(* so the element i of a Vec v is v[i + 1].                                *)
(***************************************************************************)
EXTENDS Integers, Sequences, FiniteSets, Bags, TLC

(***************************************************************************)
(* Bounds of the model.                                                    *)
(***************************************************************************)
\* coordinates are drawn from (0..MaxCoord) x (0..MaxCoord)
MaxCoord == 1
\* graphs of up to MaxDense nodes are drawn with every 0/1 matrix
MaxDense == 3
\* sparse graphs have MaxDense+1 .. MaxNodes nodes; the graphs of two routes
\* that meet have MaxNodes .. MaxNodes+1 nodes
MaxNodes == 5
\* a sparse graph has at most MaxOnes entries 1 in its matrix
MaxOnes == 4
\* up to MaxMissing tokens are cut off the end of the file
MaxMissing == 2
\* fixed-point resolution: one unit of cost is 1/Scale
Scale == 1000

VARIABLES
    content,        \* main.rs:61  the tokens of the file not yet consumed
    amount,         \* main.rs:64  the number of nodes
    goal,           \* main.rs:71  index of the goal node
    nodes,          \* main.rs:76  Vec<(i32, i32)>
    matrix,         \* main.rs:85  Vec<Vec<u8>>
    pc,             \* position of main
    found,          \* main.rs:97
    frontier,       \* main.rs:102 BinaryHeap<NodeCost>, a bag of entries
    travelled_cost, \* main.rs:107 HashMap<usize, f64>
    prev_node,      \* main.rs:115 HashMap<usize, usize>
    current,        \* main.rs:117 the entry popped last
    neighbours,     \* main.rs:124 the neighbours still to visit in the for loop
    path,           \* main.rs:247 the Vec built by reconstruct_path
    walk,           \* main.rs:244 reconstruct_path's `current`
    length,         \* main.rs:184 the value printed after "Length: "
    expanded,       \* history: the nodes popped and expanded so far
    settled,        \* history: the travelled cost each node had when it was
                    \* last popped and expanded
    stale,          \* history: the entry popped last belongs to a node expanded
                    \* before, whose travelled cost is the one it had then
    twin            \* a second run of the search on the same graph

vars == <<content, amount, goal, nodes, matrix, pc, found, frontier,
          travelled_cost, prev_node, current, neighbours, path, walk,
          length, expanded, settled, stale, twin>>

graphVars == <<amount, goal, nodes, matrix>>

-----------------------------------------------------------------------------
(***************************************************************************)
(* Arithmetic.                                                             *)
(***************************************************************************)
Min(a, b) == IF a <= b THEN a ELSE b

\* the greatest r in lo..hi with r * r <= n
RECURSIVE SqrtFloor(_, _, _)
SqrtFloor(n, lo, hi) ==
    IF lo >= hi THEN lo
    ELSE LET mid == (lo + hi + 1) \div 2
         IN  IF mid * mid <= n THEN SqrtFloor(n, mid, hi)
                               ELSE SqrtFloor(n, lo, mid - 1)

\* f64::sqrt of an integer n, in fixed point, rounded to nearest
sqrt(n) ==
    LET m == n * Scale * Scale
        r == SqrtFloor(m, 0, Min(m, 46340))
    IN  IF m - r * r > r THEN r + 1 ELSE r

\* `x as usize` for a non-negative f64 x: truncation toward zero
as_usize(x) == x \div Scale

\* main.rs:213  straight line distance between two nodes
distance(ns, node1, node2) ==
    LET dx == ns[node1 + 1][1] - ns[node2 + 1][1]
        dy == ns[node1 + 1][2] - ns[node2 + 1][2]
    IN  sqrt(dx * dx + dy * dy)

-----------------------------------------------------------------------------
(***************************************************************************)
(* The frontier: NodeCost and its ordering.                                *)
(***************************************************************************)
NodeCost(c, n) == [cost |-> c, node |-> n]

\* usize::cmp
cmp_usize(a, b) == IF a < b THEN "Less" ELSE IF a > b THEN "Greater" ELSE "Equal"

\* a plausible slip: the tie-break written the other way round
cmp_TieAscending(self, other) ==
    LET c == cmp_usize(other.cost, self.cost)
    IN  IF c # "Equal" THEN c ELSE cmp_usize(other.node, self.node)

\* a plausible slip: no tie-break, entries of equal cost compare Equal
cmp_CostOnly(self, other) == cmp_usize(other.cost, self.cost)

\* main.rs:24  impl Ord for NodeCost
cmp(self, other) ==
    LET c == cmp_usize(other.cost, self.cost)
    IN  IF c # "Equal" THEN c ELSE cmp_usize(self.node, other.node)

\* BinaryHeap::pop returns a greatest entry under Ord; which one of several
\* entries that compare Equal is left to the heap
Greatest(fr) ==
    {e \in BagToSet(fr) : \A f \in BagToSet(fr) : cmp(e, f) # "Less"}

push(fr, e) == fr (+) SetToBag({e})
remove(fr, e) == fr (-) SetToBag({e})

\* HashMap::insert
insert(m, k, v) == [x \in DOMAIN m \cup {k} |-> IF x = k THEN v ELSE m[x]]

EmptyMap == <<>>

-----------------------------------------------------------------------------
(***************************************************************************)
(* The graph.                                                              *)
(***************************************************************************)
\* main.rs:230  matrix[index][node] panics when row index is shorter than node + 1
OutOfRange(mx, node) == \E index \in 1..Len(mx) : Len(mx[index]) < node + 1

\* a plausible slip: the last index is left out of the range
adjacent_nodes_SkipLast(mx, node) ==
    SelectSeq([i \in 1..(Len(mx) - 1) |-> i - 1],
              LAMBDA index : mx[index + 1][node + 1] = 1)

\* a plausible slip: the matrix read by row instead of by column
adjacent_nodes_ByRow(mx, node) ==
    SelectSeq([i \in 1..Len(mx) |-> i - 1],
              LAMBDA index : index + 1 <= Len(mx[node + 1]) /\ mx[node + 1][index + 1] = 1)

\* main.rs:227  the indices index, ascending, with matrix[index][node] == 1
adjacent_nodes(mx, node) ==
    SelectSeq([i \in 1..Len(mx) |-> i - 1], LAMBDA index : mx[index + 1][node + 1] = 1)

-----------------------------------------------------------------------------
(***************************************************************************)
(* The input files.  A graph is written as the program expects it: the     *)
(* amount, the coordinates of the nodes in index order, the matrix row by  *)
(* row.  A file may lack its last tokens.                                  *)
(***************************************************************************)
Max(a, b) == IF a >= b THEN a ELSE b

\* the places of the matrix, row by row, that stand for an edge from a node
\* to a node of greater index: matrix[index][node] with index > node
Forward(n) == {i \in 1..(n * n) : (i - 1) \div n > (i - 1) % n}

\* content is the file of a graph of n nodes with any 0/1 matrix, whole or
\* lacking up to MaxMissing tokens at the end
DenseFile(n) ==
    \E len \in Max(0, 2 * n + n * n - MaxMissing)..(2 * n + n * n) :
        \E c \in [1..Min(2 * n, len) -> 0..MaxCoord],
           m \in [1..Max(0, len - 2 * n) -> {0, 1}] :
            content = <<n>> \o c \o m

\* content is the file of a larger graph: the start at the origin, edges
\* only from a node to a node of greater index, at most MaxOnes of them
SparseFile(n) ==
    \E ones \in SUBSET Forward(n) :
        /\ Cardinality(ones) <= MaxOnes
        /\ \E c \in [1..(2 * n - 2) -> 0..MaxCoord] :
              content = <<n, 0, 0>> \o c
                        \o [i \in 1..(n * n) |-> IF i \in ones THEN 1 ELSE 0]

\* the places of the matrix that stand for the edges 0 -> 1, 0 -> 2, 1 -> 3
\* and 2 -> 3: two routes from the start that meet in node 3
TwoRoutes(n) == {n + 1, 2 * n + 1, 3 * n + 2, 3 * n + 3}

\* content is the file of a graph of two routes that meet, with one more
\* edge from the meeting node to any node v, itself and the nodes before it
\* included
TwoRouteFile(n) ==
    \E v \in 0..(n - 1) :
        \E c \in [1..(2 * n - 2) -> 0..MaxCoord] :
            content = <<n, 0, 0>> \o c
                      \o [i \in 1..(n * n) |->
                             IF i \in TwoRoutes(n) \cup {v * n + 4} THEN 1 ELSE 0]

\* the state of a run before the search starts
Blank ==
    [pc |-> "load", found |-> FALSE, frontier |-> EmptyBag,
     travelled_cost |-> EmptyMap, prev_node |-> EmptyMap,
     current |-> NodeCost(0, 0), neighbours |-> <<>>,
     path |-> <<>>, walk |-> 0, length |-> 0]

\* the run made of the program's variables
Here ==
    [pc |-> pc, found |-> found, frontier |-> frontier,
     travelled_cost |-> travelled_cost, prev_node |-> prev_node,
     current |-> current, neighbours |-> neighbours,
     path |-> path, walk |-> walk, length |-> length]

\* the program's variables become the run t
Becomes(t) ==
    /\ pc' = t.pc
    /\ found' = t.found
    /\ frontier' = t.frontier
    /\ travelled_cost' = t.travelled_cost
    /\ prev_node' = t.prev_node
    /\ current' = t.current
    /\ neighbours' = t.neighbours
    /\ path' = t.path
    /\ walk' = t.walk
    /\ length' = t.length

Init ==
    /\ \/ \E n \in 1..MaxDense : DenseFile(n)
       \/ \E n \in (MaxDense + 1)..MaxNodes : SparseFile(n)
       \/ \E n \in MaxNodes..(MaxNodes + 1) : TwoRouteFile(n)
    /\ amount = 0
    /\ goal = 0
    /\ nodes = <<>>
    /\ matrix = <<>>
    /\ pc = Blank.pc
    /\ found = Blank.found
    /\ frontier = Blank.frontier
    /\ travelled_cost = Blank.travelled_cost
    /\ prev_node = Blank.prev_node
    /\ current = Blank.current
    /\ neighbours = Blank.neighbours
    /\ path = Blank.path
    /\ walk = Blank.walk
    /\ length = Blank.length
    /\ expanded = {}
    /\ settled = EmptyMap
    /\ stale = FALSE
    /\ twin = Blank

-----------------------------------------------------------------------------
(***************************************************************************)
(* The steps of a run t of the search, as functions of the run.  The graph *)
(* (amount, goal, nodes, matrix) is read, never written.                   *)
(***************************************************************************)
Panic(t) == [t EXCEPT !.pc = "panic"]

\* a plausible slip: the start is pushed but its cost 0 is not recorded
Start_NoLedger ==
    [Blank EXCEPT !.pc = "pop",
                  !.frontier = push(EmptyBag, NodeCost(0, 0))]

\* main.rs:97-115  the state in which the loop is entered
Start ==
    [Blank EXCEPT !.pc = "pop",
                  !.frontier = push(EmptyBag, NodeCost(0, 0)),
                  !.travelled_cost = insert(EmptyMap, 0, 0)]

\* main.rs:117-124  e has been popped: the goal test, then the neighbours
Popped(t, e) ==
    LET u == [t EXCEPT !.frontier = remove(t.frontier, e), !.current = e]
    IN  IF e.node = goal
          THEN [u EXCEPT !.found = TRUE, !.pc = "output"]
        ELSE IF OutOfRange(matrix, e.node)
          THEN Panic(u)
        ELSE LET adj == adjacent_nodes(matrix, e.node)
             IN  [u EXCEPT !.neighbours = adj,
                           !.pc = IF adj = <<>> THEN "pop" ELSE "relax"]

\* main.rs:117  pop() returned None: the loop ends with found == false
Exhausted(t) == [t EXCEPT !.pc = "output"]

\* a plausible slip: the cost travelled to current is left out
temp_cost_EdgeOnly(t, neighbour) == distance(nodes, t.current.node, neighbour)

\* a plausible slip: the heuristic's distance taken for the edge's
temp_cost_ToGoal(t, neighbour) ==
    t.travelled_cost[t.current.node] + distance(nodes, neighbour, goal)

\* main.rs:128  cost from the start to neighbour over current
temp_cost(t, neighbour) ==
    t.travelled_cost[t.current.node] + distance(nodes, t.current.node, neighbour)

\* a plausible slip: the key without the cast, the estimate itself
key_Exact(tc, neighbour) == tc + distance(nodes, neighbour, goal)

\* main.rs:148, 164  the heap key: travelled cost plus heuristic, as usize
key(tc, neighbour) == as_usize(tc + distance(nodes, neighbour, goal))

\* a plausible slip: the cheaper cost is recorded, the predecessor is not
Improve_NoPrev(t, neighbour, tc) ==
    [t EXCEPT !.travelled_cost = insert(t.travelled_cost, neighbour, tc),
              !.frontier = push(t.frontier, NodeCost(key(tc, neighbour), neighbour))]

\* a plausible slip: the cheaper path is recorded but no entry is pushed
Improve_NoPush(t, neighbour, tc) ==
    [t EXCEPT !.prev_node = insert(t.prev_node, neighbour, t.current.node),
              !.travelled_cost = insert(t.travelled_cost, neighbour, tc)]

\* main.rs:137-150  a cheaper path to a node already seen
Improve(t, neighbour, tc) ==
    [t EXCEPT !.prev_node = insert(t.prev_node, neighbour, t.current.node),
              !.travelled_cost = insert(t.travelled_cost, neighbour, tc),
              !.frontier = push(t.frontier, NodeCost(key(tc, neighbour), neighbour))]

\* a plausible slip: the first visit records the predecessor and the heap
\* entry but not the travelled cost
Discover_NoCost(t, neighbour, tc) ==
    [t EXCEPT !.prev_node = insert(t.prev_node, neighbour, t.current.node),
              !.frontier = push(t.frontier, NodeCost(key(tc, neighbour), neighbour))]

\* main.rs:154-166  a node seen for the first time
Discover(t, neighbour, tc) ==
    [t EXCEPT !.prev_node = insert(t.prev_node, neighbour, t.current.node),
              !.travelled_cost = insert(t.travelled_cost, neighbour, tc),
              !.frontier = push(t.frontier, NodeCost(key(tc, neighbour), neighbour))]

\* a plausible slip: > for <
cheaper_Dearer(tc, cost) == tc > cost

\* a plausible slip: <= for <
cheaper_OrEqual(tc, cost) == tc <= cost

\* main.rs:136  temp_cost < *cost
cheaper(tc, cost) == tc < cost

\* main.rs:126-169  one turn of the for loop, on the first neighbour left
Relaxed(t) ==
    LET neighbour == Head(t.neighbours)
        rest == Tail(t.neighbours)
    IN  IF t.current.node \notin DOMAIN t.travelled_cost
          THEN Panic(t)
        ELSE LET tc == temp_cost(t, neighbour)
                 u  == IF neighbour \in DOMAIN t.travelled_cost
                         THEN IF cheaper(tc, t.travelled_cost[neighbour])
                                THEN Improve(t, neighbour, tc)
                                ELSE t
                         ELSE Discover(t, neighbour, tc)
             IN  [u EXCEPT !.neighbours = rest,
                           !.pc = IF rest = <<>> THEN "pop" ELSE "relax"]

\* a plausible slip: the path starts with the index, not the node number
Reported_Index(t) ==
    IF t.found
      THEN [t EXCEPT !.path = <<goal>>, !.walk = goal, !.pc = "walk"]
      ELSE [t EXCEPT !.pc = "exit"]

\* main.rs:172-187, 247  found: reconstruct_path starts; else "Did not find a path"
Reported(t) ==
    IF t.found
      THEN [t EXCEPT !.path = <<goal + 1>>, !.walk = goal, !.pc = "walk"]
      ELSE [t EXCEPT !.pc = "exit"]

\* main.rs:249-253, 184  one turn of reconstruct_path's loop; at its end
\* the path and the length are printed
reconstruct_path(t) ==
    IF t.walk \in DOMAIN t.prev_node
      THEN [t EXCEPT !.path = <<t.prev_node[t.walk] + 1>> \o t.path,
                     !.walk = t.prev_node[t.walk]]
    ELSE IF goal \in DOMAIN t.travelled_cost
      THEN [t EXCEPT !.length = t.travelled_cost[goal], !.pc = "exit"]
    ELSE Panic(t)

\* the runs that can follow run t
Succ(t) ==
    CASE t.pc = "pop" ->
           IF t.frontier = EmptyBag THEN {Exhausted(t)}
           ELSE {Popped(t, e) : e \in Greatest(t.frontier)}
      [] t.pc = "relax" -> {Relaxed(t)}
      [] t.pc = "output" -> {Reported(t)}
      [] t.pc = "walk" ->
           IF Len(t.path) <= MaxNodes + 1 THEN {reconstruct_path(t)} ELSE {t}
      [] OTHER -> {t}

-----------------------------------------------------------------------------
(***************************************************************************)
(* The actions.  Every action moves the program's run by one step and the  *)
(* twin run by one step of its own choice.                                 *)
(***************************************************************************)
\* main.rs:64-115  the file is parsed and the search state set up
Load ==
    /\ pc = "load"
    /\ LET n == Head(content)
           rest == Tail(content)
           after == SubSeq(rest, 2 * n + 1, Len(rest))
       IN  IF Len(rest) < 2 * n
             THEN \* main.rs:79  content.next().unwrap() on None
                  /\ amount' = n
                  /\ goal' = n - 1
                  /\ content' = <<>>
                  /\ UNCHANGED <<nodes, matrix>>
                  /\ Becomes(Panic(Blank))
                  /\ twin' = Panic(Blank)
             ELSE /\ amount' = n
                  /\ goal' = n - 1
                  /\ nodes' = [i \in 1..n |-> <<rest[2 * i - 1], rest[2 * i]>>]
                  /\ matrix' = [r \in 1..n |->
                                   SubSeq(after, (r - 1) * n + 1, Min(r * n, Len(after)))]
                  /\ content' = SubSeq(after, n * n + 1, Len(after))
                  /\ Becomes(Start)
                  /\ twin' = Start
    /\ UNCHANGED <<expanded, settled, stale>>

\* main.rs:117  frontier.pop() returns Some(current)
Pop ==
    /\ pc = "pop"
    /\ frontier # EmptyBag
    /\ \E e \in Greatest(frontier) :
          /\ Becomes(Popped(Here, e))
          /\ IF Popped(Here, e).pc \in {"pop", "relax"}
                THEN /\ expanded' = expanded \cup {e.node}
                     /\ stale' = /\ e.node \in DOMAIN settled
                                 /\ e.node \in DOMAIN travelled_cost
                                 /\ settled[e.node] = travelled_cost[e.node]
                     /\ settled' = IF e.node \in DOMAIN travelled_cost
                                     THEN insert(settled, e.node, travelled_cost[e.node])
                                     ELSE settled
                ELSE UNCHANGED <<expanded, settled, stale>>
    /\ twin' \in Succ(twin)
    /\ UNCHANGED <<content, graphVars>>

\* main.rs:117  frontier.pop() returns None
Exhaust ==
    /\ pc = "pop"
    /\ frontier = EmptyBag
    /\ Becomes(Exhausted(Here))
    /\ twin' \in Succ(twin)
    /\ UNCHANGED <<content, graphVars, expanded, settled, stale>>

\* main.rs:126  the for loop visits the next neighbour
Relax ==
    /\ pc = "relax"
    /\ Becomes(Relaxed(Here))
    /\ twin' \in Succ(twin)
    /\ UNCHANGED <<content, graphVars, expanded, settled, stale>>

\* main.rs:172  the outcome is reported
Report ==
    /\ pc = "output"
    /\ Becomes(Reported(Here))
    /\ twin' \in Succ(twin)
    /\ UNCHANGED <<content, graphVars, expanded, settled, stale>>

\* main.rs:249  reconstruct_path walks one node back
Walk ==
    /\ pc = "walk"
    /\ Len(path) <= MaxNodes + 1
    /\ Becomes(reconstruct_path(Here))
    /\ twin' \in Succ(twin)
    /\ UNCHANGED <<content, graphVars, expanded, settled, stale>>

Next == Load \/ Pop \/ Exhaust \/ Relax \/ Report \/ Walk

Spec == Init /\ [][Next]_vars

-----------------------------------------------------------------------------
(***************************************************************************)
(* Notions the properties are stated with.                                 *)
(***************************************************************************)
\* the file held every token the amount asks for
WellFormed ==
    /\ pc # "load"
    /\ Len(nodes) = amount
    /\ Len(matrix) = amount
    /\ \A r \in 1..amount : Len(matrix[r]) = amount

\* the search has ended with the goal popped, and its report is written
FoundExit == pc = "exit" /\ found

\* the search can move from u to v: v is returned by neighbors(u)
Edge(u, v) == matrix[v + 1][u + 1] = 1

SetMin(S) == CHOOSE x \in S : \A y \in S : x <= y

\* greater than the cost of any path without a repeated node
Infinity == (MaxNodes + 2) * 2 * (MaxCoord + 1) * Scale

\* the least sum of edge distances over the paths from u to the goal that
\* visit no node of seen; a path that repeats a node is no shorter than the
\* path without the loop, distances being non-negative
RECURSIVE LeastCost(_, _)
LeastCost(u, seen) ==
    IF u = goal THEN 0
    ELSE SetMin({Infinity} \cup
                {distance(nodes, u, v) + LeastCost(v, seen \cup {v}) :
                    v \in {w \in (0..(amount - 1)) \ seen : Edge(u, w)}})

\* the nodes joined to a node of S by matrix entries, in either direction
RECURSIVE Component(_)
Component(S) ==
    LET T == S \cup {v \in 0..(amount - 1) : \E u \in S : Edge(u, v) \/ Edge(v, u)}
    IN  IF T = S THEN S ELSE Component(T)

\* the goal lies in a component no matrix entry joins to the start's
Disconnected == WellFormed /\ goal \notin Component({0})

\* the nodes the search can move to from a node of S, S included
RECURSIVE Reach(_)
Reach(S) ==
    LET T == S \cup {v \in 0..(amount - 1) : \E u \in S : Edge(u, v)}
    IN  IF T = S THEN S ELSE Reach(T)

\* the goal can be reached from the start by moves u -> v with
\* matrix[v][u] == 1
Connected == WellFormed /\ goal \in Reach({0})

\* the file lacks tokens the amount asks for
ShortFile ==
    IF pc = "load"
      THEN Len(content) < 1 + 2 * Head(content) + Head(content) * Head(content)
      ELSE ~WellFormed

\* the map m2 differs from the map m1 at most in the key k
SameBut(m1, m2, k) ==
    /\ DOMAIN m1 \ {k} = DOMAIN m2 \ {k}
    /\ \A n \in DOMAIN m1 \ {k} : m2[n] = m1[n]

\* the neighbours the for loop has visited in the expansion under way
Visited ==
    IF pc \in {"pop", "relax"} /\ current.node \in expanded
      THEN SubSeq(adjacent_nodes(matrix, current.node), 1,
                  Len(adjacent_nodes(matrix, current.node)) - Len(neighbours))
      ELSE <<>>

\* the search was entered: the coordinates of every node were read
Started == pc # "load" /\ Len(nodes) = amount

\* following prev_node from n ends in the start and meets no node of seen
RECURSIVE Rooted(_, _)
Rooted(n, seen) ==
    IF n \notin DOMAIN prev_node THEN n = 0
    ELSE /\ prev_node[n] \notin seen
         /\ Rooted(prev_node[n], seen \cup {prev_node[n]})

\* the sum of the distances of the consecutive pairs of a path of node numbers
RECURSIVE PathCost(_)
PathCost(p) ==
    IF Len(p) < 2 THEN 0
    ELSE distance(nodes, p[1] - 1, p[2] - 1) + PathCost(Tail(p))

-----------------------------------------------------------------------------
(***************************************************************************)
(* Properties.                                                             *)
(***************************************************************************)
\* C1: on a well-formed graph, when the search ends in Found the reported
\* cost is the least sum of edge distances over the paths from start to goal.
Optimality ==
    (WellFormed /\ FoundExit) => length = LeastCost(0, {0})

\* C2: when the search ends in Found the path starts with node number 1,
\* ends with node number amount, and every consecutive pair (p, q) of it has
\* matrix[q][p] == 1.
PathValidity ==
    FoundExit =>
        /\ Len(path) >= 1
        /\ path[1] = 1
        /\ path[Len(path)] = amount
        /\ \A i \in 1..(Len(path) - 1) : matrix[path[i + 1]][path[i]] = 1

\* a path of three nodes or more is reported over an edge that the matrix
\* holds in one direction only
PathValidityWitness ==
    /\ FoundExit
    /\ WellFormed
    /\ Len(path) >= 3
    /\ \E i \in 1..(Len(path) - 1) : matrix[path[i]][path[i + 1]] = 0

\* C3: when the search ends in Found the printed length is the sum of
\* distance(p, q) over the consecutive pairs (p, q) of the printed path.
CostIsPathCost ==
    FoundExit => length = PathCost(path)

\* a path of three nodes or more with a positive length is reported
CostIsPathCostWitness ==
    /\ FoundExit
    /\ Len(path) >= 3
    /\ length > 0

\* C4: when the goal lies in a component that no matrix entry joins to the
\* start's, the goal is never popped, no lookup or index fails, and the
\* search ends with the frontier empty, found == false and no path.
NoPathCase ==
    Disconnected =>
        /\ pc # "panic"
        /\ ~found
        /\ current.node # goal
        /\ pc \in {"output", "exit"} => frontier = EmptyBag
        /\ pc \notin {"walk"} /\ path = <<>>

\* a search that expanded two nodes or more ends without a path
NoPathCaseWitness ==
    /\ Disconnected
    /\ pc = "exit"
    /\ Cardinality(expanded) >= 2

\* C5: on a well-formed graph the pop/relax/push loop cannot go on forever:
\* in every run the steps taken inside the loop are finitely many, and the
\* loop is left for the report of Found or Exhausted, never by a panic.
Termination ==
    /\ <>[][~(WellFormed /\ pc \in {"pop", "relax"})]_vars
    /\ [](WellFormed => pc # "panic")
    /\ [](pc = "relax" => neighbours # <<>>)

\* the loop ends on a graph with a self-loop on a node that was expanded
\* and with two nodes at the same coordinates joined by an edge
TerminationWitness ==
    /\ WellFormed
    /\ pc = "output"
    /\ \E n \in expanded : Edge(n, n)
    /\ \E u, v \in expanded : u # v /\ Edge(u, v) /\ Edge(v, u) /\ nodes[u + 1] = nodes[v + 1]

\* C6: with amount = 1 the first pop is the goal, no node is expanded, the
\* search ends in Found, the path is [1] and the cost 0.
SingleNode ==
    (amount = 1 /\ pc \notin {"load", "panic"}) =>
        /\ expanded = {}
        /\ pc \in {"pop", "output", "walk", "exit"}
        /\ pc # "pop" => found /\ current = NodeCost(0, 0)
        /\ pc = "exit" => path = <<1>> /\ length = 0

\* the run on a single node has ended
SingleNodeWitness ==
    /\ amount = 1
    /\ WellFormed
    /\ pc = "exit"

\* C7: a file that lacks coordinate or matrix tokens is rejected when it is
\* loaded: the search is never entered and nothing is reported.
MalformedRejected ==
    ShortFile => (pc \in {"load", "panic"} /\ frontier = EmptyBag /\ path = <<>>)

\* C8 as amended: the entry popped has the least cost of the frontier, and
\* among the entries of that cost the greatest node index.
PopOrder ==
    [][(pc = "pop" /\ frontier # EmptyBag) =>
          /\ BagIn(current', frontier)
          /\ \A f \in BagToSet(frontier) :
                /\ current'.cost <= f.cost
                /\ f.cost = current'.cost => current'.node >= f.node]_vars

\* an entry has just been popped while another node's entry of the same
\* cost stays in the frontier
PopOrderWitness ==
    /\ pc = "relax"
    /\ neighbours = adjacent_nodes(matrix, current.node)
    /\ \E f \in BagToSet(frontier) : f.cost = current.cost /\ f.node # current.node

\* C8: the entry popped has the least cost of the frontier, and among the
\* entries of that cost the smallest node index.
PopOrderAscending ==
    [][(pc = "pop" /\ frontier # EmptyBag) =>
          /\ BagIn(current', frontier)
          /\ \A f \in BagToSet(frontier) :
                /\ current'.cost <= f.cost
                /\ f.cost = current'.cost => current'.node <= f.node]_vars

\* C9: once a node has been popped and expanded, no later step records a
\* cheaper travelled cost for it.
Finality ==
    [][\A n \in expanded : travelled_cost'[n] >= travelled_cost[n]]_vars

\* C10: two runs on the same file, each free in its draw among the greatest
\* entries of its frontier, end alike: both found or both not, with the same
\* path and the same length.
Determinism ==
    (pc \in {"exit", "panic"} /\ twin.pc \in {"exit", "panic"}) =>
        /\ twin.pc = pc
        /\ twin.found = found
        /\ twin.path = path
        /\ twin.length = length

\* both runs have found a path of three nodes or more, and the goal was
\* popped while another entry of the same cost was in the frontier
DeterminismWitness ==
    /\ FoundExit
    /\ twin.pc = "exit"
    /\ Len(path) >= 3
    /\ \E f \in BagToSet(frontier) : f.cost = current.cost

\* C11: relaxing the neighbour nb of current with tentative =
\* travelled_cost[current] + distance(current, nb) writes travelled_cost[nb] =
\* tentative and prev_node[nb] = current and pushes exactly one entry for nb
\* if and only if nb has no recorded cost or tentative is less than it;
\* otherwise the two maps and the frontier are unchanged; the entries of the
\* nodes other than nb are unchanged in both cases.
RelaxationRule ==
    [][pc = "relax" =>
          /\ pc' # "panic"
          /\ current.node \in DOMAIN travelled_cost
          /\ LET nb == Head(neighbours)
                 tentative == travelled_cost[current.node]
                              + distance(nodes, current.node, nb)
             IN  /\ IF nb \notin DOMAIN travelled_cost \/ tentative < travelled_cost[nb]
                       THEN /\ nb \in DOMAIN travelled_cost'
                            /\ travelled_cost'[nb] = tentative
                            /\ nb \in DOMAIN prev_node'
                            /\ prev_node'[nb] = current.node
                            /\ \E e \in BagToSet(frontier') :
                                  e.node = nb /\ frontier' = push(frontier, e)
                       ELSE /\ travelled_cost' = travelled_cost
                            /\ prev_node' = prev_node
                            /\ frontier' = frontier
                 /\ SameBut(travelled_cost, travelled_cost', nb)
                 /\ SameBut(prev_node, prev_node', nb)]_vars

\* the neighbour visited last had been expanded with a greater cost, and the
\* expansion under way, not a stale one, has lowered its cost, made current
\* its predecessor and pushed its entry
RelaxationRuleWitness ==
    /\ Visited # <<>>
    /\ ~stale
    /\ LET nb == Visited[Len(Visited)]
       IN  /\ nb \in DOMAIN settled
           /\ settled[nb] > travelled_cost[nb]
           /\ prev_node[nb] = current.node
           /\ travelled_cost[nb] = travelled_cost[current.node]
                                   + distance(nodes, current.node, nb)
           /\ BagIn(NodeCost(key(travelled_cost[nb], nb), nb), frontier)

\* C12: when the entry popped belongs to a node, not the goal, that was
\* expanded before and whose travelled cost is the one it had then, popping
\* it and visiting its neighbours changes no travelled cost and no
\* predecessor and pushes no frontier entry.
StaleInert ==
    [][/\ (pc = "pop" /\ pc' \in {"pop", "relax"} /\ stale') =>
             /\ travelled_cost' = travelled_cost
             /\ prev_node' = prev_node
             /\ frontier' = remove(frontier, current')
       /\ (pc = "relax" /\ stale) =>
             /\ travelled_cost' = travelled_cost
             /\ prev_node' = prev_node
             /\ frontier' = frontier]_vars

\* a stale entry has been popped and the for loop has visited a neighbour
\* of its node
StaleInertWitness ==
    /\ stale
    /\ Visited # <<>>
    /\ current.node # goal

\* C13: across every step the set of nodes with a recorded travelled cost
\* only grows and the recorded cost of a node never increases; a relaxation
\* that writes on a node with a recorded cost (it writes the predecessor and
\* pushes an entry along with the cost) strictly decreases the cost.
LedgerMonotone ==
    [][/\ DOMAIN travelled_cost \subseteq DOMAIN travelled_cost'
       /\ \A n \in DOMAIN travelled_cost : travelled_cost'[n] <= travelled_cost[n]
       /\ ( /\ pc = "relax"
            /\ Head(neighbours) \in DOMAIN travelled_cost
            /\ (frontier' # frontier \/ prev_node' # prev_node) ) =>
               travelled_cost'[Head(neighbours)] < travelled_cost[Head(neighbours)]]_vars

\* the frontier holds two entries of different keys for one node, the one
\* pushed when it was discovered and the one pushed when its cost was
\* overwritten with the cost now recorded
LedgerMonotoneWitness ==
    \E e, f \in BagToSet(frontier) :
        /\ e.node = f.node
        /\ e.cost < f.cost
        /\ e.cost = key(travelled_cost[e.node], e.node)

\* C14: a step of the search that writes the cost of a node n or its
\* predecessor writes both, the predecessor being current and the cost travelled_cost[current] +
\* distance(current, n); and in every state, for every node n with a
\* predecessor p, travelled_cost[n] >= travelled_cost[p] + distance(p, n).
LedgerConsistent ==
    /\ [][\A n \in DOMAIN travelled_cost' \cup DOMAIN prev_node' :
             ( /\ pc # "load"
               /\ \/ /\ n \in DOMAIN travelled_cost'
                     /\ n \in DOMAIN travelled_cost => travelled_cost'[n] # travelled_cost[n]
                  \/ /\ n \in DOMAIN prev_node'
                     /\ n \in DOMAIN prev_node => prev_node'[n] # prev_node[n] ) =>
                 /\ pc = "relax"
                 /\ n = Head(neighbours)
                 /\ n \in DOMAIN travelled_cost' /\ n \in DOMAIN prev_node'
                 /\ prev_node'[n] = current.node
                 /\ current.node \in DOMAIN travelled_cost'
                 /\ travelled_cost'[n] = travelled_cost'[current.node]
                                          + distance(nodes, current.node, n)
                 /\ (n \in DOMAIN travelled_cost => travelled_cost'[n] # travelled_cost[n])]_vars
    /\ [](\A n \in DOMAIN prev_node :
             /\ n \in DOMAIN travelled_cost
             /\ prev_node[n] \in DOMAIN travelled_cost
             /\ travelled_cost[n] >= travelled_cost[prev_node[n]]
                                     + distance(nodes, prev_node[n], n))

\* a node holds a cost greater than its predecessor's plus the distance: the
\* predecessor's cost was lowered after it had been expanded
LedgerConsistentWitness ==
    \E n \in DOMAIN prev_node :
        travelled_cost[n] > travelled_cost[prev_node[n]]
                            + distance(nodes, prev_node[n], n)

\* C15: in every state of the search the start has travelled cost 0 and no
\* predecessor, and from every node with a recorded cost the predecessors
\* lead to the start without a node met twice; the path reconstruct_path
\* builds never holds a node twice, so its loop ends.
ChainsRooted ==
    Started =>
        /\ 0 \in DOMAIN travelled_cost
        /\ travelled_cost[0] = 0
        /\ 0 \notin DOMAIN prev_node
        /\ \A n \in DOMAIN travelled_cost : Rooted(n, {n})
        /\ pc \in {"walk", "exit"} =>
              /\ Len(path) <= amount
              /\ \A i, j \in 1..Len(path) : path[i] = path[j] => i = j

\* a path is reported that leaves a node with an edge to itself, over an
\* edge of length zero that has an edge back
ChainsRootedWitness ==
    /\ FoundExit
    /\ WellFormed
    /\ \E i \in 1..(Len(path) - 1) :
          /\ Edge(path[i] - 1, path[i] - 1)
          /\ Edge(path[i + 1] - 1, path[i] - 1)
          /\ nodes[path[i]] = nodes[path[i + 1]]

\* C16: the entry pushed for a neighbour nb carries as key the integer part
\* of tentative + distance(nb, goal), while the ledger stores tentative
\* itself; and of the entries whose keys are equal, whatever their
\* estimates, the one of the greatest node index is popped.
KeyTruncated ==
    [][/\ (pc = "relax" /\ frontier' # frontier) =>
             LET nb == Head(neighbours)
                 tentative == travelled_cost[current.node]
                              + distance(nodes, current.node, nb)
                 estimate == tentative + distance(nodes, nb, goal)
             IN  /\ travelled_cost'[nb] = tentative
                 /\ \E e \in BagToSet(frontier') :
                       /\ frontier' = push(frontier, e)
                       /\ e.node = nb
                       /\ e.cost * Scale <= estimate
                       /\ estimate < (e.cost + 1) * Scale
       /\ (pc = "pop" /\ frontier # EmptyBag) =>
             \A f \in BagToSet(frontier) :
                 f.cost = current'.cost => f.node <= current'.node]_vars

\* an entry has just been popped while the frontier holds an entry of the
\* same key for a node of a lesser estimate, both keys made of the costs
\* now recorded
KeyTruncatedWitness ==
    /\ pc = "relax"
    /\ neighbours = adjacent_nodes(matrix, current.node)
    /\ current.cost = key(travelled_cost[current.node], current.node)
    /\ \E f \in BagToSet(frontier) :
          /\ f.cost = current.cost
          /\ f.cost = key(travelled_cost[f.node], f.node)
          /\ travelled_cost[f.node] + distance(nodes, f.node, goal)
               < travelled_cost[current.node] + distance(nodes, current.node, goal)

\* C17: in every state every node with an entry in the frontier has a
\* recorded travelled cost, and so have the node popped whose neighbours are
\* visited and, once the goal is found, the goal: the lookups of
\* travelled_cost never fail; and the nodes with a predecessor are the nodes
\* with a recorded cost but the start.
LookupsSucceed ==
    /\ \A e \in BagToSet(frontier) : e.node \in DOMAIN travelled_cost
    /\ pc = "relax" => current.node \in DOMAIN travelled_cost
    /\ (found \/ pc = "walk") => goal \in DOMAIN travelled_cost
    /\ DOMAIN prev_node = DOMAIN travelled_cost \ {0}
    /\ pc = "panic" => ~WellFormed

\* the goal is found and its cost printed after a node with an edge to the
\* start has been expanded, the start being left without a predecessor
LookupsSucceedWitness ==
    /\ FoundExit
    /\ length = travelled_cost[goal]
    /\ Cardinality(DOMAIN prev_node) >= 2
    /\ \E u \in expanded : u # 0 /\ Edge(u, 0)

\* C18: on a well-formed graph whose goal can be reached from the start by
\* moves current -> n with matrix[n][current] == 1, the loop is left after
\* finitely many steps, and it is left with the goal popped and found ==
\* true, never with the frontier exhausted and never by a panic.
Completeness ==
    /\ [](Connected =>
             /\ pc # "panic"
             /\ pc \in {"output", "walk", "exit"} => (found /\ current.node = goal))
    /\ <>[][~(Connected /\ pc \in {"pop", "relax"})]_vars

\* the goal is found after three nodes or more were expanded, over an edge
\* that the matrix holds in one direction only
CompletenessWitness ==
    /\ Connected
    /\ FoundExit
    /\ Cardinality(expanded) >= 3
    /\ \E i \in 1..(Len(path) - 1) :
          matrix[path[i + 1]][path[i]] = 1 /\ matrix[path[i]][path[i + 1]] = 0

=============================================================================
